---- MODULE Spec2Model ----
(***************************************************************************)
(* Model of react-access-control: the access evaluator (core/utils:        *)
(* hasPermission .. evaluateAccessControl), the useAccessControl hook, the  *)
(* MemoryCache, the storage adapters (encrypted, IndexedDB, multi-tier),    *)
(* the AccessControlProvider and the guards.                                *)
(*                                                                         *)
(* An optional JavaScript value (undefined / null, or a value) is a        *)
(* sequence of length 0 or 1: None is undefined/null, Some(v) is v.        *)
(***************************************************************************)
EXTENDS Integers, Sequences, FiniteSets, TLC

VARIABLES
    config,           \* AccessControlConfig handed to the evaluator / hook
    userPermissions,  \* UserPermissions | null
    featureFlags,     \* FeatureFlag[]
    result,           \* what the last evaluation returned (None before)
    called,           \* which evaluation produced result
    argItem,          \* single-id argument of a utility call
    argList,          \* id-list argument of a utility call
    utilResult,       \* [fn, value] of the last utility call (None before)
    cache,            \* MemoryCache.cache : key -> CacheEntry
    now,              \* Date.now()
    lastCall,         \* the last MemoryCache call and what it returned
    enc,              \* EncryptedStorageAdapter, its wrapped adapter, its calls
    idb,              \* one IndexedDBStorageAdapter operation in progress
    tiers,            \* MultiTierStorageAdapter, its adapters, its call
    pcfg,             \* AccessControlProviderConfig of the mounted provider
    prov,             \* the provider's useState values
    providerCache,    \* the module-level providerCache (a MemoryCache)
    pending,          \* fetches of the provider that have not settled yet
    guard,            \* a guard component: props, hook state, what it did
    hist,             \* what earlier calls of the provider / adapter did
    keyed             \* generateCacheKey calls: their arguments and keys

evalVars  == <<config, userPermissions, featureFlags, result, called>>
utilVars  == <<argItem, argList, utilResult>>
cacheVars == <<cache, now, lastCall>>
encVars   == <<enc>>
idbVars   == <<idb>>
tierVars  == <<tiers>>
provVars  == <<pcfg, prov, providerCache, pending>>
guardVars == <<guard>>
histVars  == <<hist>>
keyVars   == <<keyed>>
coreVars  == <<evalVars, utilVars, cacheVars, keyVars>>
extVars   == <<encVars, idbVars, tierVars, provVars, guardVars, histVars>>
vars == <<config, userPermissions, featureFlags, result, called,
          argItem, argList, utilResult, cache, now, lastCall,
          enc, idb, tiers, pcfg, prov, providerCache, pending, guard,
          hist, keyed>>

----------------------------------------------------------------------------
(* Bounds *)

MaxIds   == 2   \* ids mentioned by one AccessControlConfig (all six fields)
MaxLen   == 2   \* length of the id list passed to a utility function
MaxPerms == 2   \* length of a user's permission list
MaxFlags == 2   \* length of a feature-flag list

FeatureIds == {"f1", "f2"}
PermIds    == {"p1", "p2"}
RoleIds    == {"admin"}

\* display name of each flag id; the name of f1 collides with the id f2
FlagName(id) == IF id = "f1" THEN "f2" ELSE "n1"

----------------------------------------------------------------------------
(* Optional values and JavaScript truthiness *)

None == <<>>
Some(v) == <<v>>
IsSet(o) == o # None
Val(o) == o[1]
Opt(S) == {None} \cup {Some(v) : v \in S}

\* truthiness of an optional string: undefined and "" are falsy
TruthyStr(o) == IsSet(o) /\ Val(o) # ""
\* `xs && xs.length > 0` for an optional array
NonEmptyArr(o) == IsSet(o) /\ Len(Val(o)) > 0

SeqsUpTo(S, n) == UNION {[1..k -> S] : k \in 0..n}
Range(s) == {s[i] : i \in 1..Len(s)}

----------------------------------------------------------------------------
(* core/utils: permission utilities *)

\* variant: only the first element is compared
Includes_FirstOnly(arr, x) == Len(arr) > 0 /\ arr[1] = x

\* Array.prototype.includes
Includes(arr, x) == \E i \in 1..Len(arr) : arr[i] = x

\* variant: the permission has to be the only one held
hasPermission_OnlyOne(perms, p) == perms = <<p>>
hasPermission(perms, p) == Includes(perms, p)

hasAnyPermission(perms, ps) ==
    \E i \in 1..Len(ps) : Includes(perms, ps[i])

hasAllPermissions(perms, ps) ==
    \A i \in 1..Len(ps) : Includes(perms, ps[i])

hasRole(roles, r) == Includes(roles, r)

(* core/utils: feature-flag utilities *)

\* Array.prototype.find over f.id === feature || f.name === feature,
\* scanning from index i; 0 when nothing matches
RECURSIVE FindFlag(_, _, _)
FindFlag(flags, x, i) ==
    IF i > Len(flags) THEN 0
    ELSE IF flags[i].id = x \/ flags[i].name = x THEN i
    ELSE FindFlag(flags, x, i + 1)

\* variant: any matching flag that is enabled counts, not only the first
hasFeature_AnyMatch(flags, x) ==
    \E i \in 1..Len(flags) :
        (flags[i].id = x \/ flags[i].name = x) /\ flags[i].enabled

hasFeature(flags, x) ==
    LET i == FindFlag(flags, x, 1)
    IN  IF i # 0 THEN flags[i].enabled ELSE FALSE

\* variant: an empty id list is rejected instead of vacuously accepted
hasAllFeatures_EmptyFalse(flags, xs) ==
    Len(xs) > 0 /\ \A i \in 1..Len(xs) : hasFeature(flags, xs[i])

hasAnyFeature(flags, xs) ==
    \E i \in 1..Len(xs) : hasFeature(flags, xs[i])

hasAllFeatures(flags, xs) ==
    \A i \in 1..Len(xs) : hasFeature(flags, xs[i])

----------------------------------------------------------------------------
(* core/utils: evaluateAccessControl *)

\* variant: the all-list is consulted before the any-list
checkFeatureAccess_AllBeforeAny(cfg, flags) ==
    IF TruthyStr(cfg.feature) THEN hasFeature(flags, Val(cfg.feature))
    ELSE IF NonEmptyArr(cfg.allFeatures)
         THEN hasAllFeatures(flags, Val(cfg.allFeatures))
    ELSE IF NonEmptyArr(cfg.anyFeature)
         THEN hasAnyFeature(flags, Val(cfg.anyFeature))
    ELSE TRUE

checkFeatureAccess(cfg, flags) ==
    IF TruthyStr(cfg.feature) THEN hasFeature(flags, Val(cfg.feature))
    ELSE IF NonEmptyArr(cfg.anyFeature)
         THEN hasAnyFeature(flags, Val(cfg.anyFeature))
    ELSE IF NonEmptyArr(cfg.allFeatures)
         THEN hasAllFeatures(flags, Val(cfg.allFeatures))
    ELSE TRUE

checkPermissionAccess(cfg, user) ==
    IF TruthyStr(cfg.permission)
         THEN hasPermission(user.permissions, Val(cfg.permission))
    ELSE IF NonEmptyArr(cfg.anyPermission)
         THEN hasAnyPermission(user.permissions, Val(cfg.anyPermission))
    ELSE IF NonEmptyArr(cfg.allPermissions)
         THEN hasAllPermissions(user.permissions, Val(cfg.allPermissions))
    ELSE TRUE

hasFeatureCheck(cfg) ==
    TruthyStr(cfg.feature) \/ NonEmptyArr(cfg.anyFeature)
        \/ NonEmptyArr(cfg.allFeatures)

hasPermissionCheck(cfg) ==
    TruthyStr(cfg.permission) \/ NonEmptyArr(cfg.anyPermission)
        \/ NonEmptyArr(cfg.allPermissions)

\* `requireBoth = false` in the destructuring: undefined becomes false
requireBothOf(cfg) ==
    IF IsSet(cfg.requireBoth) THEN Val(cfg.requireBoth) ELSE FALSE

\* variant: the deny-by-default early return is missing
calculateFinalAccess_NoDefaultDeny(fCheck, pCheck, fAccess, pAccess, both) ==
    IF both
    THEN IF fCheck /\ pCheck THEN fAccess /\ pAccess
         ELSE IF fCheck THEN fAccess ELSE pAccess
    ELSE IF fCheck /\ pCheck THEN fAccess \/ pAccess
         ELSE IF fCheck THEN fAccess ELSE pAccess

\* variant: requireBoth selects OR and its absence selects AND
calculateFinalAccess_SwappedModes(fCheck, pCheck, fAccess, pAccess, both) ==
    IF ~fCheck /\ ~pCheck THEN FALSE
    ELSE IF both
         THEN IF fCheck /\ pCheck THEN fAccess \/ pAccess
              ELSE IF fCheck THEN fAccess ELSE pAccess
         ELSE IF fCheck /\ pCheck THEN fAccess /\ pAccess
              ELSE IF fCheck THEN fAccess ELSE pAccess

\* variant: OR mode always ORs the two branch results
calculateFinalAccess_AlwaysOr(fCheck, pCheck, fAccess, pAccess, both) ==
    IF ~fCheck /\ ~pCheck THEN FALSE
    ELSE IF both
         THEN IF fCheck /\ pCheck THEN fAccess /\ pAccess
              ELSE IF fCheck THEN fAccess ELSE pAccess
         ELSE fAccess \/ pAccess

calculateFinalAccess(fCheck, pCheck, fAccess, pAccess, both) ==
    IF ~fCheck /\ ~pCheck THEN FALSE
    ELSE IF both
         THEN IF fCheck /\ pCheck THEN fAccess /\ pAccess
              ELSE IF fCheck THEN fAccess ELSE pAccess
         ELSE IF fCheck /\ pCheck THEN fAccess \/ pAccess
              ELSE IF fCheck THEN fAccess ELSE pAccess

evaluateAccessControl(cfg, user, flags) ==
    LET fCheck  == hasFeatureCheck(cfg)
        pCheck  == hasPermissionCheck(cfg)
        fAccess == checkFeatureAccess(cfg, flags)
        pAccess == checkPermissionAccess(cfg, user)
    IN  [hasAccess |-> calculateFinalAccess(fCheck, pCheck, fAccess, pAccess,
                                            requireBothOf(cfg)),
         hasFeatureAccess    |-> fAccess,
         hasPermissionAccess |-> pAccess,
         hasFeatureCheck     |-> fCheck,
         hasPermissionCheck  |-> pCheck]

(* hooks/useAccessControl: the evaluateAccess callback *)

evaluateAccess(cfg, optUser, flags) ==
    IF ~IsSet(optUser)
    THEN [hasAccess |-> FALSE, hasFeatureAccess |-> FALSE,
          hasPermissionAccess |-> FALSE, hasFeatureCheck |-> FALSE,
          hasPermissionCheck |-> FALSE]
    ELSE evaluateAccessControl(cfg, Val(optUser), flags)

----------------------------------------------------------------------------
(* core/utils: cache entries and MemoryCache *)

DefaultTtlMs == 300000

\* variant: an entry is still valid at the instant it expires
isCacheValid_Inclusive(entry, t) == t <= entry.expiresAt

isCacheValid(entry, t) == t < entry.expiresAt

\* variant: `ttlMs || default`, so a ttl of 0 falls back to the default
createCacheEntry_FalsyTtl(data, ttlMs, t) ==
    LET ttl == IF IsSet(ttlMs) /\ Val(ttlMs) # 0 THEN Val(ttlMs)
               ELSE DefaultTtlMs
    IN  [data |-> data, timestamp |-> t, expiresAt |-> t + ttl]

\* ttlMs is optional; undefined takes the default of the parameter
createCacheEntry(data, ttlMs, t) ==
    LET ttl == IF IsSet(ttlMs) THEN Val(ttlMs) ELSE DefaultTtlMs
    IN  [data |-> data, timestamp |-> t, expiresAt |-> t + ttl]

\* Map.prototype.set / delete on the key -> entry map
MapSet(m, key, entry) ==
    [k \in DOMAIN m \cup {key} |-> IF k = key THEN entry ELSE m[k]]
MapDelete(m, key) == [k \in DOMAIN m \ {key} |-> m[k]]
EmptyMap == [k \in {} |-> None]

\* variant: an expired entry is reported as a miss but left in the map
MemoryCache_get_NoEvict(m, key, t) ==
    IF key \notin DOMAIN m THEN [cache |-> m, ret |-> None]
    ELSE IF ~isCacheValid(m[key], t) THEN [cache |-> m, ret |-> None]
    ELSE [cache |-> m, ret |-> Some(m[key].data)]

\* MemoryCache.get: the map afterwards and the value returned
MemoryCache_get(m, key, t) ==
    IF key \notin DOMAIN m THEN [cache |-> m, ret |-> None]
    ELSE IF ~isCacheValid(m[key], t)
         THEN [cache |-> MapDelete(m, key), ret |-> None]
    ELSE [cache |-> m, ret |-> Some(m[key].data)]

MemoryCache_set(m, key, data, ttlMs, t) ==
    MapSet(m, key, createCacheEntry(data, ttlMs, t))

MemoryCache_delete(m, key) == MapDelete(m, key)

MemoryCache_clear(m) == EmptyMap

MemoryCache_size(m) == Cardinality(DOMAIN m)

----------------------------------------------------------------------------
(* Input domains *)

OptLen(o) == IF IsSet(o) THEN Len(Val(o)) ELSE 0
OptCount(o) == IF IsSet(o) THEN 1 ELSE 0

\* number of ids one config mentions
ConfigSize(cfg) ==
    OptCount(cfg.feature) + OptLen(cfg.anyFeature) + OptLen(cfg.allFeatures)
    + OptCount(cfg.permission) + OptLen(cfg.anyPermission)
    + OptLen(cfg.allPermissions)

Configs ==
    {cfg \in [feature        : Opt(FeatureIds \cup {""}),
              anyFeature     : Opt(SeqsUpTo(FeatureIds, MaxIds)),
              allFeatures    : Opt(SeqsUpTo(FeatureIds, MaxIds)),
              permission     : Opt(PermIds \cup {""}),
              anyPermission  : Opt(SeqsUpTo(PermIds, MaxIds)),
              allPermissions : Opt(SeqsUpTo(PermIds, MaxIds)),
              requireBoth    : Opt(BOOLEAN)] : ConfigSize(cfg) <= MaxIds}

PermLists == SeqsUpTo(PermIds, MaxPerms)
RoleLists == SeqsUpTo(RoleIds, 1)
Users == [permissions : PermLists, roles : RoleLists]

Flags == {[id |-> i, name |-> FlagName(i), enabled |-> e] :
              i \in FeatureIds, e \in BOOLEAN}
FlagLists == SeqsUpTo(Flags, MaxFlags)

NoRepeat(xs) == \A i, j \in 1..Len(xs) : xs[i] = xs[j] => i = j
NoRepeatedId(flags) ==
    \A i, j \in 1..Len(flags) : flags[i].id = flags[j].id => i = j

\* the evaluator's data: every user holding each permission at most once, in
\* any order, and every flag list with each id at most once, in any order
\* (repetitions are the business of SpecPermission and SpecFeature)
EvalUsers ==
    {u \in [permissions : SeqsUpTo(PermIds, Cardinality(PermIds)),
            roles : {<<>>}] : NoRepeat(u.permissions)}
EvalFlagLists ==
    {fl \in SeqsUpTo(Flags, Cardinality(FeatureIds)) : NoRepeatedId(fl)}

\* what a caller may pass as a feature identifier: ids, names, ""
FeatureArgs == FeatureIds \cup {FlagName(i) : i \in FeatureIds} \cup {""}
PermArgs == PermIds \cup {""}

EmptyConfig ==
    [feature |-> None, anyFeature |-> None, allFeatures |-> None,
     permission |-> None, anyPermission |-> None, allPermissions |-> None,
     requireBoth |-> None]

\* a MemoryCache call: its arguments, the time it ran at, and what it gave
\* back (ret for get, n for size; evicted: get removed the entry it found)
Call(op, key, data, ttlMs, t, ret, n, evicted) ==
    [op |-> op, key |-> key, data |-> data, ttl |-> ttlMs, at |-> t,
     ret |-> ret, n |-> n, evicted |-> evicted]
NoCall == Call("none", "", "", None, 0, None, 0, FALSE)

\* the variables a specification does not exercise, at their initial values
IdleEval ==
    /\ config = EmptyConfig /\ userPermissions = None /\ featureFlags = <<>>
    /\ result = None /\ called = "none"
IdleUtil == argItem = "" /\ argList = <<>> /\ utilResult = None
IdleCache == cache = EmptyMap /\ now = 0 /\ lastCall = NoCall
IdleEnc   == enc = None
IdleIdb   == idb = None
IdleTiers == tiers = None
IdleProv  ==
    pcfg = None /\ prov = None /\ providerCache = EmptyMap /\ pending = None
IdleGuard == guard = None
IdleHist  == hist = None
IdleKey   == keyed = None
IdleExt   ==
    /\ IdleEnc /\ IdleIdb /\ IdleTiers /\ IdleProv /\ IdleGuard
    /\ IdleHist /\ IdleKey

----------------------------------------------------------------------------
(* Evaluator specification: inputs drawn in Init, the two entry points      *)
(* applied to them                                                          *)

InitEval ==
    /\ config \in Configs
    /\ userPermissions \in Opt(EvalUsers)
    /\ featureFlags \in EvalFlagLists
    /\ result = None
    /\ called = "none"
    /\ IdleUtil /\ IdleCache /\ IdleExt

\* a direct call of the exported evaluateAccessControl (needs a user object)
CallEvaluateAccessControl ==
    /\ called = "none"
    /\ IsSet(userPermissions)
    /\ result' = Some(evaluateAccessControl(config, Val(userPermissions),
                                            featureFlags))
    /\ called' = "evaluateAccessControl"
    /\ UNCHANGED <<config, userPermissions, featureFlags, utilVars, cacheVars,
                   keyVars, extVars>>

\* the hook's evaluateAccess callback
CallEvaluateAccess ==
    /\ called = "none"
    /\ result' = Some(evaluateAccess(config, userPermissions, featureFlags))
    /\ called' = "evaluateAccess"
    /\ UNCHANGED <<config, userPermissions, featureFlags, utilVars, cacheVars,
                   keyVars, extVars>>

NextEval == CallEvaluateAccessControl \/ CallEvaluateAccess

SpecEval == InitEval /\ [][NextEval]_vars

----------------------------------------------------------------------------
(* Feature-flag utilities applied to drawn inputs *)

UtilReturn(fn, value) == Some([fn |-> fn, value |-> value])

InitFeature ==
    /\ featureFlags \in FlagLists
    /\ argItem \in FeatureArgs
    /\ argList \in SeqsUpTo(FeatureArgs \ {""}, MaxLen)
    /\ utilResult = None
    /\ config = EmptyConfig /\ userPermissions = None
    /\ result = None /\ called = "none"
    /\ IdleCache /\ IdleExt

CallHasFeature ==
    /\ utilResult = None
    /\ utilResult' = UtilReturn("hasFeature", hasFeature(featureFlags, argItem))
    /\ UNCHANGED <<evalVars, argItem, argList, cacheVars, keyVars, extVars>>

CallHasAnyFeature ==
    /\ utilResult = None
    /\ utilResult' = UtilReturn("hasAnyFeature",
                                hasAnyFeature(featureFlags, argList))
    /\ UNCHANGED <<evalVars, argItem, argList, cacheVars, keyVars, extVars>>

CallHasAllFeatures ==
    /\ utilResult = None
    /\ utilResult' = UtilReturn("hasAllFeatures",
                                hasAllFeatures(featureFlags, argList))
    /\ UNCHANGED <<evalVars, argItem, argList, cacheVars, keyVars, extVars>>

NextFeature == CallHasFeature \/ CallHasAnyFeature \/ CallHasAllFeatures

SpecFeature == InitFeature /\ [][NextFeature]_vars

(* Permission utilities applied to drawn inputs *)

InitPermission ==
    /\ userPermissions \in {Some(u) : u \in Users}
    /\ argItem \in PermArgs
    /\ argList \in SeqsUpTo(PermIds, MaxLen)
    /\ utilResult = None
    /\ config = EmptyConfig /\ featureFlags = <<>>
    /\ result = None /\ called = "none"
    /\ IdleCache /\ IdleExt

CallHasPermission ==
    /\ utilResult = None
    /\ utilResult' = UtilReturn("hasPermission",
                        hasPermission(Val(userPermissions).permissions, argItem))
    /\ UNCHANGED <<evalVars, argItem, argList, cacheVars, keyVars, extVars>>

CallHasAnyPermission ==
    /\ utilResult = None
    /\ utilResult' = UtilReturn("hasAnyPermission",
                        hasAnyPermission(Val(userPermissions).permissions, argList))
    /\ UNCHANGED <<evalVars, argItem, argList, cacheVars, keyVars, extVars>>

CallHasAllPermissions ==
    /\ utilResult = None
    /\ utilResult' = UtilReturn("hasAllPermissions",
                        hasAllPermissions(Val(userPermissions).permissions, argList))
    /\ UNCHANGED <<evalVars, argItem, argList, cacheVars, keyVars, extVars>>

NextPermission ==
    CallHasPermission \/ CallHasAnyPermission \/ CallHasAllPermissions

SpecPermission == InitPermission /\ [][NextPermission]_vars

----------------------------------------------------------------------------
(* MemoryCache driven by arbitrary calls and clock advances *)

MaxTime == 3

CacheKeys == {"k1", "k2"}
CacheData == {"v1", "v2"}
Ttls == {-1, 0, 1, 2}

Init == IdleEval /\ IdleUtil /\ IdleCache /\ IdleExt

Set(key, data, ttlMs) ==
    /\ cache' = MemoryCache_set(cache, key, data, ttlMs, now)
    /\ lastCall' = Call("set", key, data, ttlMs, now, None, 0, FALSE)
    /\ UNCHANGED <<evalVars, utilVars, now, keyVars, extVars>>

Get(key) ==
    LET r == MemoryCache_get(cache, key, now)
    IN  /\ cache' = r.cache
        /\ lastCall' = Call("get", key, "", None, now, r.ret, 0,
                             r.cache # cache)
        /\ UNCHANGED <<evalVars, utilVars, now, keyVars, extVars>>

Delete(key) ==
    /\ cache' = MemoryCache_delete(cache, key)
    /\ lastCall' = Call("delete", key, "", None, now, None, 0, FALSE)
    /\ UNCHANGED <<evalVars, utilVars, now, keyVars, extVars>>

Clear ==
    /\ cache' = MemoryCache_clear(cache)
    /\ lastCall' = Call("clear", "", "", None, now, None, 0, FALSE)
    /\ UNCHANGED <<evalVars, utilVars, now, keyVars, extVars>>

Size ==
    /\ lastCall' = Call("size", "", "", None, now, None,
                         MemoryCache_size(cache), FALSE)
    /\ UNCHANGED <<evalVars, utilVars, cache, now, keyVars, extVars>>

\* Date.now() moves on
Tick ==
    /\ now < MaxTime
    /\ now' = now + 1
    /\ UNCHANGED <<evalVars, utilVars, cache, lastCall, keyVars, extVars>>

Next ==
    \/ \E key \in CacheKeys, data \in CacheData, ttlMs \in Opt(Ttls) :
           Set(key, data, ttlMs)
    \/ \E key \in CacheKeys : Get(key)
    \/ \E key \in CacheKeys : Delete(key)
    \/ Clear
    \/ Size
    \/ Tick

Spec == Init /\ [][Next]_vars

----------------------------------------------------------------------------
(* Properties of evaluateAccessControl (checked under SpecEval) *)

Evaluated == called = "evaluateAccessControl"
HookEvaluated == called = "evaluateAccess"
Res == Val(result)
HeldPermissions == Val(userPermissions).permissions

UnsetOrEmpty(o) == ~IsSet(o) \/ Val(o) = <<>>

NoCheckRequested(cfg) ==
    /\ ~IsSet(cfg.feature) /\ ~IsSet(cfg.permission)
    /\ UnsetOrEmpty(cfg.anyFeature) /\ UnsetOrEmpty(cfg.allFeatures)
    /\ UnsetOrEmpty(cfg.anyPermission) /\ UnsetOrEmpty(cfg.allPermissions)

\* C1: deny-by-default. Whatever the user's permission list, the flag list
\* and requireBoth are, a config that requests no check at all (feature and
\* permission unset, the four lists unset or empty) evaluates to
\* hasAccess = FALSE.
C1_DenyByDefault ==
    (called # "none" /\ NoCheckRequested(config)) => Res.hasAccess = FALSE

C1_Witness ==
    /\ Evaluated /\ NoCheckRequested(config)
    /\ config.requireBoth = Some(TRUE)
    /\ HeldPermissions # <<>> /\ featureFlags # <<>>
    /\ Res.hasFeatureAccess /\ Res.hasPermissionAccess
    /\ ~Res.hasAccess

\* the table of claim C2: requested flags, branch results, requireBoth
AccessTable(fRequested, pRequested, fResult, pResult, both) ==
    IF ~fRequested /\ ~pRequested THEN FALSE
    ELSE IF fRequested /\ ~pRequested THEN fResult
    ELSE IF pRequested /\ ~fRequested THEN pResult
    ELSE IF both = Some(TRUE) THEN fResult /\ pResult
    ELSE fResult \/ pResult

\* C2: hasAccess follows the table: neither check requested -> FALSE;
\* exactly one kind requested -> that branch's result whatever requireBoth
\* is; both requested -> AND of the branch results when requireBoth is
\* true, OR when it is false or unset.
C2_FinalAccessTable ==
    Evaluated =>
        Res.hasAccess = AccessTable(Res.hasFeatureCheck, Res.hasPermissionCheck,
                                    Res.hasFeatureAccess, Res.hasPermissionAccess,
                                    config.requireBoth)

C2_Witness ==
    /\ Evaluated
    /\ Res.hasFeatureCheck /\ Res.hasPermissionCheck
    /\ config.requireBoth = Some(TRUE)
    /\ Res.hasFeatureAccess /\ ~Res.hasPermissionAccess
    /\ ~Res.hasAccess

\* the precedence of claim C3 for one branch, given when the single field
\* counts as set
BranchIs(access, check, singleSet, single, anyList, anyTest, allList, allTest) ==
    IF singleSet THEN access = single /\ check
    ELSE IF NonEmptyArr(anyList) THEN access = anyTest /\ check
    ELSE IF NonEmptyArr(allList) THEN access = allTest /\ check
    ELSE access = TRUE /\ ~check

FeatureBranchIs(singleSet) ==
    BranchIs(Res.hasFeatureAccess, Res.hasFeatureCheck, singleSet,
             hasFeature(featureFlags, Val(config.feature)),
             config.anyFeature,
             hasAnyFeature(featureFlags, Val(config.anyFeature)),
             config.allFeatures,
             hasAllFeatures(featureFlags, Val(config.allFeatures)))

PermissionBranchIs(singleSet) ==
    BranchIs(Res.hasPermissionAccess, Res.hasPermissionCheck, singleSet,
             hasPermission(HeldPermissions, Val(config.permission)),
             config.anyPermission,
             hasAnyPermission(HeldPermissions, Val(config.anyPermission)),
             config.allPermissions,
             hasAllPermissions(HeldPermissions, Val(config.allPermissions)))

\* C3 as stated: the single field decides whenever it is set (any string,
\* the empty string included); then the any-list, then the all-list, else
\* the branch passes and its check flag is FALSE.
C3_Original ==
    Evaluated => /\ FeatureBranchIs(IsSet(config.feature))
                 /\ PermissionBranchIs(IsSet(config.permission))

\* C3 (amended): the single field decides when it is set to a non-empty
\* string (an empty string counts as unset); else a non-empty any-list
\* decides; else a non-empty all-list decides; else the branch result is
\* TRUE, and the check flag is FALSE exactly in that last case.
C3_BranchPrecedence ==
    Evaluated => /\ FeatureBranchIs(TruthyStr(config.feature))
                 /\ PermissionBranchIs(TruthyStr(config.permission))

C3_Witness ==
    /\ Evaluated
    /\ config.permission = Some("") /\ NonEmptyArr(config.anyPermission)
    /\ Res.hasPermissionCheck /\ Res.hasPermissionAccess
    /\ hasAnyPermission(HeldPermissions, Val(config.anyPermission))
    /\ ~hasPermission(HeldPermissions, "")

OrMode(cfg) == cfg.requireBoth \in {None, Some(FALSE)}
OnlyFeatureCheckSet(cfg) == hasFeatureCheck(cfg) /\ ~hasPermissionCheck(cfg)

\* C4 as stated: in OR mode with only a feature check set, hasAccess is the
\* feature-check result and is the same for every permission data of the
\* user, the case of permissions not loaded (null) included.
C4_Original ==
    (called # "none" /\ OrMode(config) /\ OnlyFeatureCheckSet(config)) =>
        /\ Res.hasAccess = Res.hasFeatureAccess
        /\ \A u \in Opt(Users) :
               evaluateAccess(config, u, featureFlags).hasAccess = Res.hasAccess

\* C4 (amended): in OR mode with only a feature check set, for a loaded
\* user hasAccess is the feature-check result and is the same for every
\* permission list and role list of the user; when the user's permissions
\* are not loaded the hook reports hasAccess = FALSE whatever the flags are.
C4_IndependentOfPermissions ==
    (called # "none" /\ OrMode(config) /\ OnlyFeatureCheckSet(config)) =>
        IF IsSet(userPermissions)
        THEN /\ Res.hasAccess = Res.hasFeatureAccess
             /\ Res.hasAccess = checkFeatureAccess(config, featureFlags)
             /\ \A u \in Users :
                    /\ evaluateAccess(config, Some(u), featureFlags).hasAccess
                           = Res.hasAccess
                    /\ evaluateAccessControl(config, u, featureFlags).hasAccess
                           = Res.hasAccess
        ELSE Res.hasAccess = FALSE

C4_Witness ==
    /\ HookEvaluated /\ OrMode(config) /\ OnlyFeatureCheckSet(config)
    /\ IsSet(userPermissions) /\ HeldPermissions = <<>>
    /\ Res.hasAccess
    /\ \E u \in Users : u.permissions # <<>> /\ u.roles # <<>>

----------------------------------------------------------------------------
(* Properties of the feature-flag utilities (checked under SpecFeature) *)

Returned(fn) == IsSet(utilResult) /\ Val(utilResult).fn = fn
Value == Val(utilResult).value

Matches(flag, x) == flag.id = x \/ flag.name = x

\* the flag x maps to: the first flag of the list matching x by id or name
IsLookup(flags, x, j) ==
    /\ j \in 1..Len(flags)
    /\ Matches(flags[j], x)
    /\ \A h \in 1..(j - 1) : ~Matches(flags[h], x)

MapsToEnabled(flags, x) == \E j \in 1..Len(flags) : IsLookup(flags, x, j) /\ flags[j].enabled

\* C5: for every flag list F (duplicate ids and names allowed) and id list
\* L, hasAnyFeature(F, L) is true iff at least one id of L maps to an
\* enabled flag of F, hasAllFeatures(F, L) iff every id of L does; for
\* empty L, any is false and all is true.
C5_AnyAllFeatures ==
    /\ Returned("hasAnyFeature") =>
           /\ Value = (\E i \in 1..Len(argList) : MapsToEnabled(featureFlags, argList[i]))
           /\ argList = <<>> => Value = FALSE
    /\ Returned("hasAllFeatures") =>
           /\ Value = (\A i \in 1..Len(argList) : MapsToEnabled(featureFlags, argList[i]))
           /\ argList = <<>> => Value = TRUE

C5_Witness ==
    /\ Returned("hasAllFeatures") /\ Value = FALSE
    /\ Len(argList) = 2 /\ argList[1] # argList[2]
    /\ hasAnyFeature(featureFlags, argList)
    /\ ~NoRepeatedId(featureFlags)

\* C6: hasFeature(F, x) is the enabled state of the first flag, in list
\* order, whose id or name equals x, and FALSE when no flag matches; flags
\* after that first match never influence the result.
C6_FirstMatchWins ==
    Returned("hasFeature") =>
        /\ \A j \in 1..Len(featureFlags) :
               IsLookup(featureFlags, argItem, j) =>
                   /\ Value = featureFlags[j].enabled
                   /\ \A rest \in FlagLists :
                          hasFeature(SubSeq(featureFlags, 1, j) \o rest, argItem)
                              = Value
        /\ (\A j \in 1..Len(featureFlags) : ~Matches(featureFlags[j], argItem))
               => Value = FALSE

C6_Witness ==
    /\ Returned("hasFeature") /\ Value = FALSE
    /\ Len(featureFlags) = 2
    /\ Matches(featureFlags[1], argItem) /\ Matches(featureFlags[2], argItem)
    /\ featureFlags[1].id # featureFlags[2].id
    /\ featureFlags[2].enabled

----------------------------------------------------------------------------
(* Properties of the permission utilities (checked under SpecPermission) *)

\* lists of one more element than the drawn ones, to reorder and duplicate
WiderPermLists == SeqsUpTo(PermIds, MaxPerms + 1)
SameSet(xs, ys) == Range(xs) = Range(ys)

\* C7: the permission checks depend only on the set of permissions held:
\* hasPermission(P, x) iff x occurs in P, hasAnyPermission(P, L) iff some
\* element of L occurs in P, hasAllPermissions(P, L) iff every element of L
\* occurs in P (true for empty L); reordering or duplicating elements of P
\* or of L never changes a result.
C7_PermissionsAreSets ==
    LET P == HeldPermissions
    IN  /\ Returned("hasPermission") =>
               /\ Value = (argItem \in Range(P))
               /\ \A P2 \in WiderPermLists :
                      SameSet(P2, P) => hasPermission(P2, argItem) = Value
        /\ Returned("hasAnyPermission") =>
               /\ Value = (Range(argList) \cap Range(P) # {})
               /\ \A P2, L2 \in WiderPermLists :
                      (SameSet(P2, P) /\ SameSet(L2, argList)) =>
                          hasAnyPermission(P2, L2) = Value
        /\ Returned("hasAllPermissions") =>
               /\ Value = (Range(argList) \subseteq Range(P))
               /\ argList = <<>> => Value = TRUE
               /\ \A P2, L2 \in WiderPermLists :
                      (SameSet(P2, P) /\ SameSet(L2, argList)) =>
                          hasAllPermissions(P2, L2) = Value

C7_Witness ==
    /\ Returned("hasAllPermissions") /\ Value = TRUE
    /\ HeldPermissions = <<"p2", "p1">>
    /\ argList = <<"p1", "p1">>

----------------------------------------------------------------------------
(* Properties of MemoryCache (checked under Spec) *)

SetTo(key) == \E data \in CacheData, ttlMs \in Opt(Ttls) : Set(key, data, ttlMs)
TtlOf(ttlMs) == IF IsSet(ttlMs) THEN Val(ttlMs) ELSE DefaultTtlMs
Stored(key) == key \in DOMAIN cache
Live(key) == Stored(key) /\ now < cache[key].expiresAt
Expired(key) == Stored(key) /\ ~(now < cache[key].expiresAt)

\* C8: over every sequence of set, get, delete, clear and clock advances,
\* get(key) returns a value only if an entry for key is stored and the
\* current time is strictly less than its expiry, the time of its last set
\* plus the ttl of that set; in every other case it returns no value.
C8_GetOnlyUnexpired ==
    [][\A key \in CacheKeys :
          /\ Get(key) =>
                 lastCall'.ret = IF Live(key) THEN Some(cache[key].data) ELSE None
          /\ \A data \in CacheData, ttlMs \in Opt(Ttls) :
                 Set(key, data, ttlMs) =>
                     cache'[key].expiresAt = now + TtlOf(ttlMs)
          /\ (Stored(key) /\ key \in DOMAIN cache' /\ cache'[key] # cache[key])
                 => SetTo(key)
      ]_vars

C8_Witness ==
    /\ lastCall.op = "get" /\ lastCall.ret = None /\ lastCall.evicted
    /\ lastCall.at > 0
    /\ cache # EmptyMap

\* C9: set(k, v, ttl) followed by get(k) with no clock advance in between
\* returns v when ttl > 0 and no value when ttl <= 0; a second set on the
\* same key replaces both the value and the expiry of the first.
C9_RoundTrip ==
    [][\A key \in CacheKeys :
          /\ (Get(key) /\ lastCall.op = "set" /\ lastCall.key = key
                  /\ lastCall.at = now) =>
                 lastCall'.ret = IF TtlOf(lastCall.ttl) > 0
                                 THEN Some(lastCall.data) ELSE None
          /\ \A data \in CacheData, ttlMs \in Opt(Ttls) :
                 (Stored(key) /\ Set(key, data, ttlMs)) =>
                     /\ cache'[key].data = data
                     /\ cache'[key].expiresAt = now + TtlOf(ttlMs)
      ]_vars

C9_Witness ==
    /\ lastCall.op = "get" /\ lastCall.ret = None /\ lastCall.evicted
    /\ now = 0

\* C10: lazy eviction. An expired entry stays stored, and counted by size(),
\* until get is called on its key or it is overwritten, deleted or cleared;
\* a get on an expired key removes exactly that entry and lowers size() by
\* one; no operation on another key and no passage of time removes it.
C10_LazyEviction ==
    [][/\ \A key \in CacheKeys :
             Expired(key) =>
                 IF Get(key)
                 THEN /\ DOMAIN cache' = DOMAIN cache \ {key}
                      /\ \A other \in DOMAIN cache' : cache'[other] = cache[other]
                      /\ MemoryCache_size(cache') = MemoryCache_size(cache) - 1
                 ELSE IF SetTo(key) \/ Delete(key) \/ Clear THEN TRUE
                 ELSE key \in DOMAIN cache' /\ cache'[key] = cache[key]
       /\ Size => lastCall'.n = Cardinality({key \in CacheKeys : Stored(key)})
      ]_vars

C10_Witness ==
    /\ lastCall.op = "size" /\ lastCall.n = 2
    /\ lastCall.at = now
    /\ \A key \in CacheKeys : Expired(key)

----------------------------------------------------------------------------
(* adapters/storage: EncryptedStorageAdapter.  A string is the sequence of  *)
(* its UTF-16 code units; a call that can throw yields [ok, value].         *)

MaxStr    == 3   \* length of a value handed to setItem
MaxKeyLen == 2   \* length of the secret key

Completes(v) == [ok |-> TRUE, value |-> v]
Throws       == [ok |-> FALSE, value |-> <<>>]

\* a ^ b on non-negative integers
RECURSIVE Xor(_, _)
Xor(a, b) ==
    IF a = 0 THEN b
    ELSE IF b = 0 THEN a
    ELSE ((a + b) % 2) + 2 * Xor(a \div 2, b \div 2)

\* secretKey.charCodeAt(i % secretKey.length) as the ^ operator sees it:
\* with an empty key the index is NaN, charCodeAt gives NaN, and NaN is 0
keyCharCode(secretKey, i) ==
    IF Len(secretKey) = 0 THEN 0
    ELSE secretKey[(i % Len(secretKey)) + 1]

\* the loop shared by encrypt and decrypt: String.fromCharCode(text[i] ^ key)
xorWithKey(text, secretKey) ==
    [i \in 1..Len(text) |->
        Xor(text[i], keyCharCode(secretKey, i - 1)) % 65536]

\* the base64 alphabet: A-Z a-z 0-9 + / ; 61 is the padding character =
B64Char(i) ==
    IF i < 26 THEN 65 + i
    ELSE IF i < 52 THEN 97 + (i - 26)
    ELSE IF i < 62 THEN 48 + (i - 52)
    ELSE IF i = 62 THEN 43 ELSE 47

B64Index(c) ==
    IF c \in 65..90 THEN c - 65
    ELSE IF c \in 97..122 THEN c - 71
    ELSE IF c \in 48..57 THEN c + 4
    ELSE IF c = 43 THEN 62
    ELSE IF c = 47 THEN 63 ELSE -1

RECURSIVE Base64Encode(_)
Base64Encode(b) ==
    IF Len(b) = 0 THEN <<>>
    ELSE IF Len(b) = 1 THEN
        <<B64Char(b[1] \div 4), B64Char((b[1] % 4) * 16), 61, 61>>
    ELSE IF Len(b) = 2 THEN
        <<B64Char(b[1] \div 4), B64Char((b[1] % 4) * 16 + b[2] \div 16),
          B64Char((b[2] % 16) * 4), 61>>
    ELSE
        <<B64Char(b[1] \div 4), B64Char((b[1] % 4) * 16 + b[2] \div 16),
          B64Char((b[2] % 16) * 4 + b[3] \div 64), B64Char(b[3] % 64)>>
        \o Base64Encode(SubSeq(b, 4, Len(b)))

\* btoa throws InvalidCharacterError on a code unit above 255
btoa(s) ==
    IF \E i \in 1..Len(s) : s[i] > 255 THEN Throws
    ELSE Completes(Base64Encode(s))

\* from sextets back to bytes; leftover bits of a short last group are dropped
RECURSIVE Base64Decode(_)
Base64Decode(x) ==
    IF Len(x) < 2 THEN <<>>
    ELSE IF Len(x) = 2 THEN <<x[1] * 4 + x[2] \div 16>>
    ELSE IF Len(x) = 3 THEN
        <<x[1] * 4 + x[2] \div 16, (x[2] % 16) * 16 + x[3] \div 4>>
    ELSE
        <<x[1] * 4 + x[2] \div 16, (x[2] % 16) * 16 + x[3] \div 4,
          (x[3] % 4) * 64 + x[4]>>
        \o Base64Decode(SubSeq(x, 5, Len(x)))

\* atob (forgiving-base64 decode): ASCII whitespace is dropped, one or two
\* trailing = are dropped when the length is a multiple of 4, then a length
\* of 1 mod 4 or a character outside the alphabet throws
atob(s) ==
    LET NotWhitespace(c) == c \notin {9, 10, 12, 13, 32}
        w == SelectSeq(s, NotWhitespace)
        n == Len(w)
        d == IF n > 0 /\ n % 4 = 0 /\ w[n] = 61
             THEN IF w[n - 1] = 61 THEN SubSeq(w, 1, n - 2)
                  ELSE SubSeq(w, 1, n - 1)
             ELSE w
    IN  IF Len(d) % 4 = 1 \/ \E i \in 1..Len(d) : B64Index(d[i]) = -1
        THEN Throws
        ELSE Completes(Base64Decode([i \in 1..Len(d) |-> B64Index(d[i])]))

encrypt(text, secretKey) == btoa(xorWithKey(text, secretKey))

\* decrypt catches what atob throws and returns the empty string
decrypt(encryptedText, secretKey) ==
    LET text == atob(encryptedText)
    IN  IF text.ok THEN xorWithKey(text.value, secretKey) ELSE <<>>

\* what a call of the adapter gave its caller: the promise fulfilled with ret
\* (None is null / undefined) or rejected
Fulfilled(ret) == [outcome |-> "fulfilled", ret |-> ret]
Rejected       == [outcome |-> "rejected", ret |-> None]

\* the wrapped adapter: store maps each key to the text kept under it, and
\* with fails every call of it throws
EncryptedStorageAdapter_getItem(store, fails, secretKey, key) ==
    IF fails THEN Rejected
    ELSE LET encryptedValue == store[key]
         IN  IF ~IsSet(encryptedValue) \/ Val(encryptedValue) = <<>>
             THEN Fulfilled(None)
             ELSE Fulfilled(Some(decrypt(Val(encryptedValue), secretKey)))

EncryptedStorageAdapter_setItem(store, fails, secretKey, key, value) ==
    LET encryptedValue == encrypt(value, secretKey)
    IN  IF ~encryptedValue.ok \/ fails
        THEN [store |-> store, res |-> Rejected]
        ELSE [store |-> [store EXCEPT ![key] = Some(encryptedValue.value)],
              res |-> Fulfilled(None)]

EncryptedStorageAdapter_removeItem(store, fails, key) ==
    IF fails THEN [store |-> store, res |-> Rejected]
    ELSE [store |-> [store EXCEPT ![key] = None], res |-> Fulfilled(None)]

ValueChars == {97, 8364}     \* "a" and the euro sign (above 255)
KeyChars   == {107, 8364}    \* "k" and the euro sign
EncKeys    == {"k1", "k2"}

\* texts another writer may have left in the wrapped storage:
\* "!" and "A" are not base64, "QQ==" is
StoredTexts == {<<33>>, <<65>>, <<81, 81, 61, 61>>}

EncCall(op, key, value, res) ==
    [op |-> op, key |-> key, value |-> value,
     outcome |-> res.outcome, ret |-> res.ret]
NoEncCall == EncCall("none", "", <<>>, Fulfilled(None))

\* written[k]: the value of the latest fulfilled setItem(k, _) that no
\* removeItem(k) followed
InitEncrypted ==
    /\ enc \in [secretKey : SeqsUpTo(KeyChars, MaxKeyLen),
                store : {[k \in EncKeys |-> IF k = "k1" THEN t ELSE None] :
                            t \in Opt(StoredTexts)},
                fails : BOOLEAN,
                written : {[k \in EncKeys |-> None]},
                last : {NoEncCall}]
    /\ IdleEval /\ IdleUtil /\ IdleCache
    /\ IdleIdb /\ IdleTiers /\ IdleProv /\ IdleGuard /\ IdleHist /\ IdleKey

EncryptedSetItem(key, value) ==
    LET r == EncryptedStorageAdapter_setItem(enc.store, enc.fails,
                                             enc.secretKey, key, value)
    IN  /\ enc' = [enc EXCEPT
                     !.store = r.store,
                     !.written[key] = IF r.res.outcome = "fulfilled"
                                      THEN Some(value) ELSE @,
                     !.last = EncCall("setItem", key, value, r.res)]
        /\ UNCHANGED <<coreVars, idbVars, tierVars, provVars,
                       guardVars, histVars>>

EncryptedGetItem(key) ==
    /\ enc' = [enc EXCEPT !.last =
                 EncCall("getItem", key, <<>>,
                         EncryptedStorageAdapter_getItem(
                             enc.store, enc.fails, enc.secretKey, key))]
    /\ UNCHANGED <<coreVars, idbVars, tierVars, provVars, guardVars, histVars>>

EncryptedRemoveItem(key) ==
    LET r == EncryptedStorageAdapter_removeItem(enc.store, enc.fails, key)
    IN  /\ enc' = [enc EXCEPT
                     !.store = r.store,
                     !.written[key] = IF r.res.outcome = "fulfilled"
                                      THEN None ELSE @,
                     !.last = EncCall("removeItem", key, <<>>, r.res)]
        /\ UNCHANGED <<coreVars, idbVars, tierVars, provVars,
                       guardVars, histVars>>

NextEncrypted ==
    \/ \E key \in EncKeys, value \in SeqsUpTo(ValueChars, MaxStr) :
           EncryptedSetItem(key, value)
    \/ \E key \in EncKeys : EncryptedGetItem(key)
    \/ \E key \in EncKeys : EncryptedRemoveItem(key)

SpecEncrypted == InitEncrypted /\ [][NextEncrypted]_vars

----------------------------------------------------------------------------
(* Properties of EncryptedStorageAdapter (checked under SpecEncrypted) *)

EncGot(key) == enc.last.op = "getItem" /\ enc.last.key = key

\* C11: over a wrapped adapter that stores and returns text faithfully, a
\* getItem(k) that follows a fulfilled setItem(k, v) is fulfilled with
\* exactly v, for every key, every string v (the empty one included) and
\* every secret key.
C11_RoundTrip ==
    \A key \in EncKeys :
        (EncGot(key) /\ ~enc.fails /\ IsSet(enc.written[key]))
            => /\ enc.last.outcome = "fulfilled"
               /\ enc.last.ret = enc.written[key]

\* the text the wrapped adapter holds under key cannot be decoded
Malformed(key) ==
    /\ IsSet(enc.store[key])
    /\ ~atob(Val(enc.store[key])).ok

\* C12: when the text stored under the key is malformed, getItem is
\* fulfilled with null: not with an empty or garbage string, and not
\* rejected.
C12_MalformedIsAbsent ==
    \A key \in EncKeys :
        (EncGot(key) /\ ~enc.fails /\ Malformed(key))
            => /\ enc.last.outcome = "fulfilled"
               /\ enc.last.ret = None

\* C13: no call of the adapter is rejected, whether the wrapped adapter
\* throws or the encoding fails: getItem yields null, setItem and
\* removeItem are no-ops.
C13_SilentFailure ==
    /\ enc.last.outcome # "rejected"
    /\ (enc.fails /\ enc.last.op = "getItem") => enc.last.ret = None

----------------------------------------------------------------------------
(* adapters/storage: IndexedDBStorageAdapter.  One call at a time, followed *)
(* through the events of IndexedDB: the open request, the transaction, the  *)
(* get / put / delete request.                                              *)

IdbKeys   == {"k1", "k2"}
IdbValues == {"", "v1"}
IdbOps    == {"getItem", "setItem", "removeItem"}

\* pc: idle, opening (awaiting openDB), opened (openDB resolved), requested
\* (the promise around the request was returned), done
\* promise: the promise the caller holds
IdbState(db, op, key, value, pc, promise, ret) ==
    [db |-> db, op |-> op, key |-> key, value |-> value, pc |-> pc,
     promise |-> promise, ret |-> ret]

InitIndexedDB ==
    /\ idb \in {IdbState(db, "none", "", "", "idle", "none", None) :
                    db \in [IdbKeys -> Opt(IdbValues)]}
    /\ IdleEval /\ IdleUtil /\ IdleCache
    /\ IdleEnc /\ IdleTiers /\ IdleProv /\ IdleGuard /\ IdleHist /\ IdleKey

\* getItem / setItem / removeItem up to `await this.openDB()`
IdbCall(op, key, value) ==
    /\ idb.pc \in {"idle", "done"}
    /\ idb' = IdbState(idb.db, op, key, value, "opening", "pending", None)
    /\ UNCHANGED <<coreVars, encVars, tierVars, provVars, guardVars, histVars>>

\* openDB: request.onsuccess resolves with the database
IdbOpenSuccess ==
    /\ idb.pc = "opening"
    /\ idb' = [idb EXCEPT !.pc = "opened"]
    /\ UNCHANGED <<coreVars, encVars, tierVars, provVars, guardVars, histVars>>

\* openDB: request.onerror (or indexedDB.open throwing) rejects; the await
\* is inside the try block, so the catch block ends the call
IdbOpenError ==
    /\ idb.pc = "opening"
    /\ idb' = [idb EXCEPT !.pc = "done", !.promise = "fulfilled",
                          !.ret = None]
    /\ UNCHANGED <<coreVars, encVars, tierVars, provVars, guardVars, histVars>>

\* db.transaction / transaction.objectStore throws inside the try block
IdbTransactionThrows ==
    /\ idb.pc = "opened"
    /\ idb' = [idb EXCEPT !.pc = "done", !.promise = "fulfilled",
                          !.ret = None]
    /\ UNCHANGED <<coreVars, encVars, tierVars, provVars, guardVars, histVars>>

\* `return new Promise(...)`: the request is issued and the call's promise
\* is resolved with the new promise, after which the try block is left
IdbRequest ==
    /\ idb.pc = "opened"
    /\ idb' = [idb EXCEPT !.pc = "requested"]
    /\ UNCHANGED <<coreVars, encVars, tierVars, provVars, guardVars, histVars>>

\* request.onsuccess: resolve(request.result || null), resp. resolve()
IdbRequestSuccess ==
    /\ idb.pc = "requested"
    /\ idb' =
        [idb EXCEPT
            !.pc = "done",
            !.promise = "fulfilled",
            !.ret = IF idb.op = "getItem" /\ IsSet(idb.db[idb.key])
                       /\ TruthyStr(idb.db[idb.key])
                    THEN idb.db[idb.key] ELSE None,
            !.db = IF idb.op = "setItem"
                   THEN [idb.db EXCEPT ![idb.key] = Some(idb.value)]
                   ELSE IF idb.op = "removeItem"
                   THEN [idb.db EXCEPT ![idb.key] = None]
                   ELSE idb.db]
    /\ UNCHANGED <<coreVars, encVars, tierVars, provVars, guardVars, histVars>>

\* request.onerror: reject(request.error) rejects the returned promise
IdbRequestError ==
    /\ idb.pc = "requested"
    /\ idb' = [idb EXCEPT !.pc = "done", !.promise = "rejected"]
    /\ UNCHANGED <<coreVars, encVars, tierVars, provVars, guardVars, histVars>>

NextIndexedDB ==
    \/ \E op \in IdbOps, key \in IdbKeys, value \in IdbValues :
           IdbCall(op, key, value)
    \/ IdbOpenSuccess
    \/ IdbOpenError
    \/ IdbTransactionThrows
    \/ IdbRequest
    \/ IdbRequestSuccess
    \/ IdbRequestError

SpecIndexedDB == InitIndexedDB /\ [][NextIndexedDB]_vars

----------------------------------------------------------------------------
(* Properties of IndexedDBStorageAdapter (checked under SpecIndexedDB) *)

\* C14: no promise of the adapter ever rejects: after an open failure, a
\* transaction failure or a request error, getItem is resolved with null
\* and setItem / removeItem are resolved normally.
C14_NeverRejects ==
    /\ idb.promise # "rejected"
    /\ (idb.pc = "done" /\ idb.op # "getItem") => idb.ret = None

----------------------------------------------------------------------------
(* adapters/storage: MultiTierStorageAdapter.  Each wrapped adapter is the  *)
(* text it holds per key; whether a call of it throws / rejects is decided  *)
(* call by call.  One call of the multi-tier adapter at a time.             *)

MaxTiers == 2   \* number of wrapped adapters

TierKeys   == {"k1", "k2"}
TierValues == {"", "v1"}

\* adapters: the stores, in list order
\* pc: idle, reading (in the for loop of getItem, about to call adapter i),
\*     writing (awaiting Promise.allSettled), done
\* seen: what each adapter called by getItem did, in call order
\* status: per adapter, the promise of its setItem / removeItem wrapper:
\*     idle (not called), pending, ok, failed (threw, swallowed)
TierState(adapters, op, key, value, pc, i, seen, status, promise, ret) ==
    [adapters |-> adapters, op |-> op, key |-> key, value |-> value,
     pc |-> pc, i |-> i, seen |-> seen, status |-> status,
     promise |-> promise, ret |-> ret]

TierStores == [TierKeys -> Opt(TierValues)]

InitMultiTier ==
    /\ tiers \in {TierState(a, "none", "", "", "idle", 0, <<>>,
                            [j \in 1..Len(a) |-> "idle"], "none", None) :
                     a \in SeqsUpTo(TierStores, MaxTiers)}
    /\ IdleEval /\ IdleUtil /\ IdleCache
    /\ IdleEnc /\ IdleIdb /\ IdleProv /\ IdleGuard /\ IdleHist /\ IdleKey

NumTiers == Len(tiers.adapters)

\* hist of the adapter: the setItem / removeItem that completed last with
\* no other write begun since (None: there is none), and what each
\* adapter's wrapper did in it
CompletedWrite(op, key, value, status) ==
    [op |-> op, key |-> key, value |-> value, status |-> status]

\* what one adapter.getItem(key) did
TierRead(threw, ret) == [threw |-> threw, ret |-> ret]

\* the body of the for loop: `if (result !== null) return result`, and
\* `catch { continue }`
returnsResult_Truthy(r) == ~r.threw /\ TruthyStr(r.ret)
returnsResult(r) == ~r.threw /\ r.ret # None

\* getItem(key) is called: the loop starts at the first adapter
TierGetItem(key) ==
    /\ tiers.pc \in {"idle", "done"}
    /\ tiers' = TierState(tiers.adapters, "getItem", key, "", "reading", 1,
                          <<>>, [j \in 1..NumTiers |-> "idle"],
                          "pending", None)
    /\ UNCHANGED <<coreVars, encVars, idbVars, provVars, guardVars, histVars>>

\* `await adapter.getItem(key)` for adapter i settles
TierGetStep(threw) ==
    /\ tiers.pc = "reading"
    /\ tiers.i <= NumTiers
    /\ LET r == TierRead(threw, IF threw THEN None
                                ELSE tiers.adapters[tiers.i][tiers.key])
       IN  tiers' =
             IF returnsResult(r)
             THEN [tiers EXCEPT !.seen = Append(@, r), !.pc = "done",
                                !.promise = "fulfilled", !.ret = r.ret]
             ELSE [tiers EXCEPT !.seen = Append(@, r), !.i = @ + 1]
    /\ UNCHANGED <<coreVars, encVars, idbVars, provVars, guardVars, histVars>>

\* the loop is over: `return null`
TierGetExhausted ==
    /\ tiers.pc = "reading"
    /\ tiers.i > NumTiers
    /\ tiers' = [tiers EXCEPT !.pc = "done", !.promise = "fulfilled",
                              !.ret = None]
    /\ UNCHANGED <<coreVars, encVars, idbVars, provVars, guardVars, histVars>>

\* setItem / removeItem: adapters.map(async ...) calls every adapter before
\* anything is awaited
TierWrite(op, key, value) ==
    /\ tiers.pc \in {"idle", "done"}
    /\ tiers' = TierState(tiers.adapters, op, key, value, "writing", 0,
                          <<>>, [j \in 1..NumTiers |-> "pending"],
                          "pending", None)
    /\ hist' = None
    /\ UNCHANGED <<coreVars, encVars, idbVars, provVars, guardVars>>

\* the setItem / removeItem of adapter j settles; a failure is swallowed by
\* the catch of its wrapper
TierSettle(j, threw) ==
    /\ tiers.pc = "writing"
    /\ tiers.status[j] = "pending"
    /\ tiers' =
        IF threw THEN [tiers EXCEPT !.status[j] = "failed"]
        ELSE [tiers EXCEPT
                !.status[j] = "ok",
                !.adapters[j][tiers.key] =
                    IF tiers.op = "setItem" THEN Some(tiers.value) ELSE None]
    /\ UNCHANGED <<coreVars, encVars, idbVars, provVars, guardVars, histVars>>

\* Promise.allSettled(promises) resolves once no wrapper is pending
allSettled_Any(status) ==
    \E j \in DOMAIN status : status[j] \in {"ok", "failed"}
allSettled(status) ==
    \A j \in DOMAIN status : status[j] \in {"ok", "failed"}

TierWriteDone ==
    /\ tiers.pc = "writing"
    /\ allSettled(tiers.status)
    /\ tiers' = [tiers EXCEPT !.pc = "done", !.promise = "fulfilled"]
    /\ hist' = Some(CompletedWrite(tiers.op, tiers.key, tiers.value,
                                   tiers.status))
    /\ UNCHANGED <<coreVars, encVars, idbVars, provVars, guardVars>>

NextMultiTier ==
    \/ \E key \in TierKeys : TierGetItem(key)
    \/ \E threw \in BOOLEAN : TierGetStep(threw)
    \/ TierGetExhausted
    \/ \E key \in TierKeys, value \in TierValues :
           TierWrite("setItem", key, value)
    \/ \E key \in TierKeys : TierWrite("removeItem", key, "")
    \/ \E j \in 1..NumTiers, threw \in BOOLEAN : TierSettle(j, threw)
    \/ TierWriteDone

SpecMultiTier == InitMultiTier /\ [][NextMultiTier]_vars

----------------------------------------------------------------------------
(* Properties of MultiTierStorageAdapter (checked under SpecMultiTier) *)

TierDone(op) == tiers.pc = "done" /\ tiers.op = op
Skipped(r)   == r.threw \/ r.ret = None

\* C15: getItem calls the adapters in list order and is fulfilled with the
\* first non-null value; adapters that threw or returned null are skipped;
\* it is fulfilled with null only if every adapter threw or returned null;
\* it never rejects.
C15_FirstPresentValue ==
    /\ tiers.op = "getItem" =>
          /\ tiers.promise # "rejected"
          /\ Len(tiers.seen) <= NumTiers
          /\ \A m \in 1..Len(tiers.seen) :
                ~tiers.seen[m].threw =>
                    tiers.seen[m].ret = tiers.adapters[m][tiers.key]
    /\ TierDone("getItem") =>
          LET m == Len(tiers.seen)
          IN  /\ tiers.promise = "fulfilled"
              /\ \A j \in 1..(m - 1) : Skipped(tiers.seen[j])
              /\ IF tiers.ret # None
                 THEN m >= 1 /\ ~tiers.seen[m].threw
                      /\ tiers.ret = tiers.adapters[m][tiers.key]
                 ELSE m = NumTiers /\ \A j \in 1..m : Skipped(tiers.seen[j])

\* the first adapter threw, the second one held the empty string
C15_Witness ==
    /\ TierDone("getItem")
    /\ Len(tiers.seen) = 2
    /\ tiers.seen[1].threw
    /\ tiers.adapters[1][tiers.key] = Some("v1")
    /\ tiers.ret = Some("")

TierWriting == tiers.op \in {"setItem", "removeItem"}

\* C16: setItem and removeItem call the operation on every adapter; a
\* failing adapter neither keeps the others from being written nor fails
\* the call; the call completes only after every adapter's operation has
\* settled.
C16_WriteAll ==
    TierWriting =>
        /\ tiers.promise # "rejected"
        /\ \A j \in 1..NumTiers : tiers.status[j] # "idle"
        /\ \A j \in 1..NumTiers :
              tiers.status[j] = "ok" =>
                  tiers.adapters[j][tiers.key] =
                      IF tiers.op = "setItem" THEN Some(tiers.value) ELSE None
        /\ tiers.pc = "done" =>
              /\ tiers.promise = "fulfilled"
              /\ \A j \in 1..NumTiers : tiers.status[j] \in {"ok", "failed"}

\* the first adapter failed, the second one was still written
C16_Witness ==
    /\ TierDone("setItem")
    /\ NumTiers = 2
    /\ tiers.status = <<"failed", "ok">>
    /\ tiers.adapters[1][tiers.key] = None
    /\ tiers.adapters[2][tiers.key] = Some(tiers.value)

----------------------------------------------------------------------------
(* hooks/useAccessControl: the hook, and the guards that render by it *)

\* the useState values of lines 39-42, as useState initialises them; no
\* setter of them is ever called and the hook reads no context
HookState(user, flags, isLoading, isFeatureFlagsLoading) ==
    [userPermissions |-> user, featureFlags |-> flags,
     isLoading |-> isLoading, isFeatureFlagsLoading |-> isFeatureFlagsLoading]
InitialHookState == HookState(None, <<>>, TRUE, TRUE)

\* the UTF-16 code units of the strings that occur in configs, user ids
\* and the key template (all ASCII, none needs a JSON escape)
CodeUnits(s) ==
    CASE s = "" -> <<>>
      [] s = "f1" -> <<102, 49>>
      [] s = "f2" -> <<102, 50>>
      [] s = "p1" -> <<112, 49>>
      [] s = "p2" -> <<112, 50>>
      [] s = "u1" -> <<117, 49>>
      [] s = "anonymous" -> <<97, 110, 111, 110, 121, 109, 111, 117, 115>>
      [] s = "access-control:" -> <<97, 99, 99, 101, 115, 115, 45, 99, 111, 110, 116, 114, 111, 108, 58>>
      [] s = "true" -> <<116, 114, 117, 101>>
      [] s = "false" -> <<102, 97, 108, 115, 101>>
      [] s = "feature" -> <<102, 101, 97, 116, 117, 114, 101>>
      [] s = "anyFeature" -> <<97, 110, 121, 70, 101, 97, 116, 117, 114, 101>>
      [] s = "allFeatures" -> <<97, 108, 108, 70, 101, 97, 116, 117, 114, 101, 115>>
      [] s = "permission" -> <<112, 101, 114, 109, 105, 115, 115, 105, 111, 110>>
      [] s = "anyPermission" -> <<97, 110, 121, 80, 101, 114, 109, 105, 115, 115, 105, 111, 110>>
      [] s = "allPermissions" -> <<97, 108, 108, 80, 101, 114, 109, 105, 115, 115, 105, 111, 110, 115>>
      [] s = "requireBoth" -> <<114, 101, 113, 117, 105, 114, 101, 66, 111, 116, 104>>

\* the props of a config in the order the guards write their literal
ConfigFields ==
    <<"feature", "anyFeature", "allFeatures", "permission", "anyPermission",
      "allPermissions", "requireBoth">>

\* a config as the object it is: its own properties as <<name, value>> in
\* insertion order, the value None when the property is undefined; this is
\* the literal AccessGuard and RouteGuard hand to the hook
configLiteral(cfg) ==
    [i \in 1..Len(ConfigFields) |-> <<ConfigFields[i], cfg[ConfigFields[i]]>>]

RECURSIVE JoinComma(_)
JoinComma(parts) ==
    IF Len(parts) = 0 THEN <<>>
    ELSE IF Len(parts) = 1 THEN parts[1]
    ELSE parts[1] \o <<44>> \o JoinComma(Tail(parts))

JsonString(s) == <<34>> \o CodeUnits(s) \o <<34>>

\* the JSON text of a property value: a string, a boolean or a string[]
JsonValue(name, v) ==
    IF name \in {"feature", "permission"} THEN JsonString(v)
    ELSE IF name = "requireBoth"
    THEN CodeUnits(IF v THEN "true" ELSE "false")
    ELSE <<91>> \o JoinComma([i \in 1..Len(v) |-> JsonString(v[i])])
              \o <<93>>

\* JSON.stringify(config): the properties in insertion order, those whose
\* value is undefined left out
stringifyConfig(obj) ==
    LET Defined(e) == IsSet(e[2])
        present == SelectSeq(obj, Defined)
        Member(e) == JsonString(e[1]) \o <<58>> \o JsonValue(e[1], Val(e[2]))
    IN  <<123>> \o JoinComma([i \in 1..Len(present) |-> Member(present[i])])
               \o <<125>>

\* `access-control:${userId || 'anonymous'}:${btoa(configString)}`, as code
\* units; it throws when btoa does
generateCacheKey(obj, userId) ==
    LET configString == stringifyConfig(obj)
        userString == IF TruthyStr(userId) THEN Val(userId) ELSE "anonymous"
        encoded == btoa(configString)
    IN  IF encoded.ok
        THEN Completes(CodeUnits("access-control:") \o CodeUnits(userString)
                           \o <<58>> \o encoded.value)
        ELSE Throws

\* one evaluation of the hook body against globalCache c at time t: the
\* AccessControlResult it returns and globalCache afterwards (the ids of the
\* configs are ASCII, so generateCacheKey completes)
useAccessControl(cfg, enableCache, hook, c, t) ==
    LET user == hook.userPermissions
        cacheKey == IF ~enableCache \/ ~IsSet(user) THEN None
                    ELSE Some(generateCacheKey(configLiteral(cfg),
                                               Val(user).userId).value)
        got == IF IsSet(cacheKey) THEN MemoryCache_get(c, Val(cacheKey), t)
               ELSE [cache |-> c, ret |-> None]
        settled == ~hook.isLoading /\ ~hook.isFeatureFlagsLoading
        r == evaluateAccess(cfg, user, hook.featureFlags)
        accessControlResult ==
            [hasAccess |-> r.hasAccess,
             hasFeatureAccess |-> r.hasFeatureAccess,
             hasPermissionAccess |-> r.hasPermissionAccess,
             isFeatureFlagsLoading |-> hook.isFeatureFlagsLoading]
    IN  IF IsSet(got.ret) /\ settled
        THEN [result |-> Val(got.ret), cache |-> got.cache]
        ELSE [result |-> accessControlResult,
              cache |-> IF IsSet(cacheKey) /\ settled
                        THEN MemoryCache_set(got.cache, Val(cacheKey),
                                             accessControlResult, None, t)
                        ELSE got.cache]

\* props of a guard: the access configuration, the optional fallback and
\* loading nodes, redirectTo and whether onAccessDenied is supplied
GuardProps(cfg, fallback, loading, redirectTo, onAccessDenied) ==
    [config |-> cfg, fallback |-> fallback, loading |-> loading,
     redirectTo |-> redirectTo, onAccessDenied |-> onAccessDenied]

\* what AccessGuard returns: the children, the fallback node, the loading
\* node, or null ("nothing")
AccessGuard_LoadingLast(props, res) ==
    IF ~res.hasAccess
    THEN IF IsSet(props.fallback) THEN "fallback" ELSE "nothing"
    ELSE IF res.isFeatureFlagsLoading
    THEN IF IsSet(props.loading) THEN "loading" ELSE "nothing"
    ELSE "children"
AccessGuard(props, res) ==
    IF res.isFeatureFlagsLoading
    THEN IF IsSet(props.loading) THEN "loading" ELSE "nothing"
    ELSE IF ~res.hasAccess
    THEN IF IsSet(props.fallback) THEN "fallback" ELSE "nothing"
    ELSE "children"

\* what RouteGuard returns
RouteGuard(props, res) ==
    IF res.isFeatureFlagsLoading
    THEN IF IsSet(props.loading) THEN "loading" ELSE "nothing"
    ELSE IF ~res.hasAccess THEN "nothing"
    ELSE "children"

\* the effect of RouteGuard: whether onAccessDenied is called and where the
\* router is sent (None: no navigation; the redirectTo branch is empty)
RouteGuardEffect(props, res) ==
    IF ~res.isFeatureFlagsLoading /\ ~res.hasAccess
    THEN IF props.onAccessDenied
         THEN [denied |-> TRUE, navigatedTo |-> None]
         ELSE IF TruthyStr(props.redirectTo)
         THEN [denied |-> FALSE, navigatedTo |-> None]
         ELSE [denied |-> FALSE, navigatedTo |-> None]
    ELSE [denied |-> FALSE, navigatedTo |-> None]

\* a mounted guard: out is what its last render returned, res the hook
\* result of that render, effect whether its effect is still to run
GuardState(kind, props, hook, out, res, effect, denied, navigatedTo) ==
    [kind |-> kind, props |-> props, hook |-> hook, out |-> out, res |-> res,
     effect |-> effect, denied |-> denied, navigatedTo |-> navigatedTo]

NoResult ==
    [hasAccess |-> FALSE, hasFeatureAccess |-> FALSE,
     hasPermissionAccess |-> FALSE, isFeatureFlagsLoading |-> FALSE]

Unrendered(kind, props, hook) ==
    GuardState(kind, props, hook, "unrendered", NoResult, FALSE, FALSE, None)

\* the guard (re)renders: it calls the hook (options: { debugMode }, so
\* enableCache is true) and returns by its result; the first render
\* schedules the effect of a RouteGuard
Render ==
    LET h == useAccessControl(guard.props.config, TRUE, guard.hook,
                              cache, now)
    IN  /\ guard' = [guard EXCEPT
                       !.out = IF guard.kind = "AccessGuard"
                               THEN AccessGuard(guard.props, h.result)
                               ELSE RouteGuard(guard.props, h.result),
                       !.res = h.result,
                       !.effect = IF guard.out = "unrendered"
                                  THEN guard.kind = "RouteGuard" ELSE @]
        /\ cache' = h.cache
        /\ UNCHANGED <<evalVars, utilVars, now, lastCall, keyVars, encVars,
                       idbVars, tierVars, provVars, histVars>>

\* the useEffect of RouteGuard runs after the render was committed
RunEffect ==
    /\ guard.effect
    /\ LET e == RouteGuardEffect(guard.props, guard.res)
       IN  guard' = [guard EXCEPT !.effect = FALSE, !.denied = e.denied,
                                  !.navigatedTo = e.navigatedTo]
    /\ UNCHANGED <<coreVars, encVars, idbVars, tierVars, provVars, histVars>>

----------------------------------------------------------------------------
(* components/AccessControlProvider: the load functions, the refresh      *)
(* functions and the mount effect, against the module-level providerCache  *)

MaxPending == 2   \* fetches of one kind that are in flight together

DefaultCacheTimeout == 300000

\* what the application's fetch functions may resolve with
ProvUsers ==
    {[permissions |-> <<"p1">>, roles |-> <<>>, userId |-> Some("u1")],
     [permissions |-> <<>>, roles |-> <<>>, userId |-> Some("u1")]}
ProvFlagLists ==
    {<<[id |-> "f1", name |-> FlagName("f1"), enabled |-> TRUE]>>, <<>>}
Timeouts == {0, 2}

\* config of the provider; fetchFeatureFlags, onError: whether the function
\* is given
ProviderConfigs ==
    [enableCache : Opt(BOOLEAN), cacheTimeout : Opt(Timeouts),
     fetchFeatureFlags : BOOLEAN, onError : BOOLEAN]

enableCache(cfg) ==
    IF IsSet(cfg.enableCache) THEN Val(cfg.enableCache) ELSE TRUE
cacheTimeout(cfg) ==
    IF IsSet(cfg.cacheTimeout) THEN Val(cfg.cacheTimeout)
    ELSE DefaultCacheTimeout

\* the useState values of lines 50-57
InitialProviderState(cfg) ==
    [user |-> None, isLoading |-> TRUE, error |-> None,
     featureFlags |-> <<>>, isFeatureFlagsLoading |-> cfg.fetchFeatureFlags,
     featureFlagsError |-> None]

\* loadUserPermissions up to `await fetchUserPermissions()`: the state set,
\* providerCache afterwards, and whether the fetch function was called
loadUserPermissions_NoCache(cfg, p, c, t) ==
    [prov |-> [p EXCEPT !.isLoading = TRUE, !.error = None],
     cache |-> c, fetch |-> TRUE]
loadUserPermissions(cfg, p, c, t) ==
    LET p1 == [p EXCEPT !.isLoading = TRUE, !.error = None]
        cached == MemoryCache_get(c, "user-permissions", t)
    IN  IF ~enableCache(cfg) THEN [prov |-> p1, cache |-> c, fetch |-> TRUE]
        ELSE IF IsSet(cached.ret)
        THEN [prov |-> [p1 EXCEPT !.user = cached.ret, !.isLoading = FALSE],
              cache |-> cached.cache, fetch |-> FALSE]
        ELSE [prov |-> p1, cache |-> cached.cache, fetch |-> TRUE]

\* loadFeatureFlags up to `await fetchFeatureFlags()`
loadFeatureFlags(cfg, p, c, t) ==
    LET p1 == [p EXCEPT !.isFeatureFlagsLoading = TRUE,
                        !.featureFlagsError = None]
        cached == MemoryCache_get(c, "feature-flags", t)
    IN  IF ~cfg.fetchFeatureFlags
        THEN [prov |-> p, cache |-> c, fetch |-> FALSE]
        ELSE IF ~enableCache(cfg)
        THEN [prov |-> p1, cache |-> c, fetch |-> TRUE]
        ELSE IF IsSet(cached.ret)
        THEN [prov |-> [p1 EXCEPT !.featureFlags = Val(cached.ret),
                                  !.isFeatureFlagsLoading = FALSE],
              cache |-> cached.cache, fetch |-> FALSE]
        ELSE [prov |-> p1, cache |-> cached.cache, fetch |-> TRUE]

\* the rest of a load after its fetch resolved: the cache write
\* variant: an entry that is already there is not overwritten
storeFetched_KeepFirst(cfg, c, key, data, t) ==
    IF enableCache(cfg) /\ key \notin DOMAIN c
    THEN MemoryCache_set(c, key, data, Some(cacheTimeout(cfg)), t)
    ELSE c
storeFetched(cfg, c, key, data, t) ==
    IF enableCache(cfg)
    THEN MemoryCache_set(c, key, data, Some(cacheTimeout(cfg)), t)
    ELSE c

\* the refresh functions first drop the entry of their key
\* variant: the entry is left in place
dropCached_Keep(cfg, c, key) == c
dropCached(cfg, c, key) ==
    IF enableCache(cfg) THEN MemoryCache_delete(c, key) ELSE c

Inc(b) == IF b THEN 1 ELSE 0

\* hist of a provider, about its permission loads and its onError prop:
\* last: how the load that completed most recently ended (none, ok, failed)
\* raced: set when the fetch that settled last was in flight together with
\*     the one that resolved before it: the value that earlier one set
\* carried: the fetches still in flight when the last one settled
\* onError: how often the last step of the provider called onError
ProviderHistory(last, raced, carried, onError) ==
    [last |-> last, raced |-> raced, carried |-> carried,
     onError |-> onError]
NoHistory == ProviderHistory("none", None, 0, 0)

\* a permission load ran up to its await: one served from the cache is over
loadStarted(h, fetch) ==
    IF fetch THEN [h EXCEPT !.onError = 0]
    ELSE ProviderHistory("ok", None, 0, 0)

\* the fetch of a permission load settled while n were in flight
loadSettled(h, n, outcome, onError) ==
    ProviderHistory(outcome,
                    IF outcome = "ok" /\ h.last = "ok" /\ h.carried >= 1
                       /\ n = h.carried
                    THEN prov.user ELSE None,
                    n - 1, onError)

\* `if (onError) onError(error)`: the calls made
onErrorCalls(cfg) == IF cfg.onError THEN 1 ELSE 0

\* the effect of lines 240-243, on mount and whenever the load callbacks
\* change: loadUserPermissions(); loadFeatureFlags()
ProviderEffect ==
    LET u == loadUserPermissions(pcfg, prov, providerCache, now)
        f == loadFeatureFlags(pcfg, u.prov, u.cache, now)
    IN  /\ pending.user + Inc(u.fetch) <= MaxPending
        /\ pending.flags + Inc(f.fetch) <= MaxPending
        /\ prov' = f.prov
        /\ providerCache' = f.cache
        /\ pending' = [user |-> pending.user + Inc(u.fetch),
                       flags |-> pending.flags + Inc(f.fetch)]
        /\ hist' = loadStarted(hist, u.fetch)
        /\ UNCHANGED <<coreVars, encVars, idbVars, tierVars, pcfg,
                       guardVars>>

RefreshPermissions ==
    LET u == loadUserPermissions(
                 pcfg, prov,
                 dropCached(pcfg, providerCache, "user-permissions"), now)
    IN  /\ pending.user + Inc(u.fetch) <= MaxPending
        /\ prov' = u.prov
        /\ providerCache' = u.cache
        /\ pending' = [pending EXCEPT !.user = @ + Inc(u.fetch)]
        /\ hist' = loadStarted(hist, u.fetch)
        /\ UNCHANGED <<coreVars, encVars, idbVars, tierVars, pcfg,
                       guardVars>>

RefreshFeatureFlags ==
    LET f == loadFeatureFlags(
                 pcfg, prov,
                 dropCached(pcfg, providerCache, "feature-flags"), now)
    IN  /\ pending.flags + Inc(f.fetch) <= MaxPending
        /\ prov' = f.prov
        /\ providerCache' = f.cache
        /\ pending' = [pending EXCEPT !.flags = @ + Inc(f.fetch)]
        /\ hist' = [hist EXCEPT !.onError = 0]
        /\ UNCHANGED <<coreVars, encVars, idbVars, tierVars, pcfg,
                       guardVars>>

\* a pending fetchUserPermissions() resolves: setUser, cache write, finally
UserFetchResolves(permissions) ==
    /\ pending.user > 0
    /\ prov' = [prov EXCEPT !.user = Some(permissions), !.isLoading = FALSE]
    /\ providerCache' = storeFetched(pcfg, providerCache, "user-permissions",
                                     permissions, now)
    /\ pending' = [pending EXCEPT !.user = @ - 1]
    /\ hist' = loadSettled(hist, pending.user, "ok", 0)
    /\ UNCHANGED <<coreVars, encVars, idbVars, tierVars, pcfg, guardVars>>

\* a pending fetchUserPermissions() rejects: catch (setError, onError),
\* finally
UserFetchRejects ==
    /\ pending.user > 0
    /\ prov' = [prov EXCEPT !.error = Some("error"), !.isLoading = FALSE]
    /\ pending' = [pending EXCEPT !.user = @ - 1]
    /\ hist' = loadSettled(hist, pending.user, "failed", onErrorCalls(pcfg))
    /\ UNCHANGED <<coreVars, encVars, idbVars, tierVars, pcfg, providerCache,
                   guardVars>>

FlagsFetchResolves(flags) ==
    /\ pending.flags > 0
    /\ prov' = [prov EXCEPT !.featureFlags = flags,
                            !.isFeatureFlagsLoading = FALSE]
    /\ providerCache' = storeFetched(pcfg, providerCache, "feature-flags",
                                     flags, now)
    /\ pending' = [pending EXCEPT !.flags = @ - 1]
    /\ hist' = [hist EXCEPT !.onError = 0]
    /\ UNCHANGED <<coreVars, encVars, idbVars, tierVars, pcfg, guardVars>>

FlagsFetchRejects ==
    /\ pending.flags > 0
    /\ prov' = [prov EXCEPT !.featureFlagsError = Some("error"),
                            !.isFeatureFlagsLoading = FALSE]
    /\ pending' = [pending EXCEPT !.flags = @ - 1]
    /\ hist' = [hist EXCEPT !.onError = onErrorCalls(pcfg)]
    /\ UNCHANGED <<coreVars, encVars, idbVars, tierVars, pcfg, providerCache,
                   guardVars>>

\* the helpers the context hands to its consumers (lines 189-207)
checkPermission(p, permission) ==
    IF ~IsSet(p.user) THEN FALSE
    ELSE hasPermission(Val(p.user).permissions, permission)
checkAnyPermission(p, permissions) ==
    IF ~IsSet(p.user) THEN FALSE
    ELSE hasAnyPermission(Val(p.user).permissions, permissions)
checkAllPermissions(p, permissions) ==
    IF ~IsSet(p.user) THEN FALSE
    ELSE hasAllPermissions(Val(p.user).permissions, permissions)
checkRole(p, role) ==
    IF ~IsSet(p.user) THEN FALSE
    ELSE hasRole(Val(p.user).roles, role)

\* what an AccessControlProvider of another part of the page, with fetch
\* functions of its own, loaded
OtherProviderUser ==
    [permissions |-> <<"p2">>, roles |-> <<"admin">>, userId |-> Some("u2")]
OtherProviderFlags ==
    <<[id |-> "f2", name |-> FlagName("f2"), enabled |-> TRUE]>>

\* providerCache is shared by every provider of the page: at mount it may
\* hold, per key, nothing, or an entry the other provider stored, expired
\* or live
PriorEntries(key, data) ==
    {EmptyMap} \cup
    {MemoryCache_set(EmptyMap, key, data, Some(ttlMs), 0) : ttlMs \in Timeouts}
Merge(a, b) ==
    [k \in DOMAIN a \cup DOMAIN b |-> IF k \in DOMAIN a THEN a[k] ELSE b[k]]
PriorCaches ==
    {Merge(a, b) :
        a \in PriorEntries("user-permissions", OtherProviderUser),
        b \in PriorEntries("feature-flags", OtherProviderFlags)}

InitProvider ==
    /\ pcfg \in ProviderConfigs
    /\ prov = InitialProviderState(pcfg)
    /\ providerCache \in PriorCaches
    /\ pending = [user |-> 0, flags |-> 0]
    /\ hist = NoHistory
    /\ IdleEval /\ IdleUtil /\ IdleCache
    /\ IdleEnc /\ IdleIdb /\ IdleTiers /\ IdleGuard /\ IdleKey

NextProvider ==
    \/ ProviderEffect
    \/ RefreshPermissions
    \/ RefreshFeatureFlags
    \/ \E permissions \in ProvUsers : UserFetchResolves(permissions)
    \/ UserFetchRejects
    \/ \E flags \in ProvFlagLists : FlagsFetchResolves(flags)
    \/ FlagsFetchRejects
    \/ Tick

SpecProvider == InitProvider /\ [][NextProvider]_vars

----------------------------------------------------------------------------
(* A guard under a provider, and a guard on its own *)

Nodes      == {"node"}       \* a React element passed as fallback / loading
RedirectTo == {"/login"}

\* the config a guard hands to the hook: requireBoth defaults to false
GuardConfig(feature, permission, requireBoth) ==
    [EmptyConfig EXCEPT !.feature = feature, !.permission = permission,
                        !.requireBoth = Some(requireBoth)]
GuardConfigs ==
    {GuardConfig(None, Some("p1"), FALSE),
     GuardConfig(Some("f1"), None, FALSE),
     GuardConfig(Some("f1"), Some("p1"), TRUE),
     GuardConfig(None, None, FALSE)}

AccessGuards(hooks) ==
    {Unrendered("AccessGuard",
                GuardProps(cfg, fallback, loading, None, FALSE), hook) :
        cfg \in GuardConfigs, fallback \in Opt(Nodes), loading \in Opt(Nodes),
        hook \in hooks}
RouteGuards(hooks) ==
    {Unrendered("RouteGuard",
                GuardProps(cfg, None, loading, redirectTo, onAccessDenied),
                hook) :
        cfg \in GuardConfigs, loading \in Opt(Nodes),
        redirectTo \in Opt(RedirectTo), onAccessDenied \in BOOLEAN,
        hook \in hooks}

\* the provider of the page keeps the default cacheTimeout and is given no
\* onError
AppProviderConfigs ==
    {cfg \in ProviderConfigs : cfg.cacheTimeout = None /\ ~cfg.onError}

\* an AccessGuard mounted below the only AccessControlProvider of the page
InitApp ==
    /\ pcfg \in AppProviderConfigs
    /\ prov = InitialProviderState(pcfg)
    /\ providerCache = EmptyMap
    /\ pending = [user |-> 0, flags |-> 0]
    /\ hist = NoHistory
    /\ guard \in AccessGuards({InitialHookState})
    /\ IdleEval /\ IdleUtil /\ IdleCache
    /\ IdleEnc /\ IdleIdb /\ IdleTiers /\ IdleKey

NextApp ==
    \/ ProviderEffect
    \/ RefreshPermissions
    \/ RefreshFeatureFlags
    \/ \E permissions \in ProvUsers : UserFetchResolves(permissions)
    \/ UserFetchRejects
    \/ \E flags \in ProvFlagLists : FlagsFetchResolves(flags)
    \/ FlagsFetchRejects
    \/ Tick
    \/ Render

SpecApp == InitApp /\ [][NextApp]_vars

\* a guard rendered against every value its hook state can take by type
HookStates ==
    {HookState(user, flags, isLoading, isFeatureFlagsLoading) :
        user \in Opt(ProvUsers), flags \in ProvFlagLists,
        isLoading \in BOOLEAN, isFeatureFlagsLoading \in BOOLEAN}

InitGuard ==
    /\ guard \in AccessGuards(HookStates) \cup RouteGuards(HookStates)
    /\ IdleEval /\ IdleUtil /\ IdleCache
    /\ IdleEnc /\ IdleIdb /\ IdleTiers /\ IdleProv /\ IdleHist /\ IdleKey

NextGuard ==
    \/ Render
    \/ RunEffect

SpecGuard == InitGuard /\ [][NextGuard]_vars

----------------------------------------------------------------------------
(* Properties of the guards (checked under SpecApp and SpecGuard) *)

\* the provider has loaded both sources without error
ProviderReady ==
    /\ ~prov.isLoading /\ ~prov.isFeatureFlagsLoading
    /\ IsSet(prov.user)
    /\ prov.error = None /\ prov.featureFlagsError = None

\* the data the provider holds satisfy the guard's configuration
Satisfying ==
    evaluateAccessControl(guard.props.config, Val(prov.user),
                          prov.featureFlags).hasAccess

\* C17: data flow from the provider to the guard: once the provider's
\* fetches have succeeded with data that satisfy the guard's configuration,
\* a render of the guard leaves the loading state and returns the children.
C17_ProviderFeedsGuard ==
    [][(Render /\ ProviderReady /\ Satisfying) => guard'.out = "children"]_vars

Rendered(kind) == guard.kind = kind /\ guard.out # "unrendered"

\* C18: a guard returns its children only if the flags are not loading and
\* hasAccess is true; while the flags are loading it returns the loading
\* placeholder if one is given and nothing otherwise; when not loading and
\* denied it returns the fallback if one is given and nothing otherwise.
C18_RenderDecision ==
    guard.out # "unrendered" =>
        /\ guard.res.isFeatureFlagsLoading = guard.hook.isFeatureFlagsLoading
        /\ guard.out = "children" =>
              ~guard.res.isFeatureFlagsLoading /\ guard.res.hasAccess
        /\ guard.res.isFeatureFlagsLoading =>
              guard.out = IF IsSet(guard.props.loading) THEN "loading"
                          ELSE "nothing"
        /\ (~guard.res.isFeatureFlagsLoading /\ ~guard.res.hasAccess) =>
              guard.out = IF IsSet(guard.props.fallback) THEN "fallback"
                          ELSE "nothing"
        /\ (~guard.res.isFeatureFlagsLoading /\ guard.res.hasAccess) =>
              guard.out = "children"

\* access is denied while a loading placeholder is given: the fallback shows
C18_Witness ==
    /\ Rendered("AccessGuard")
    /\ ~guard.hook.isFeatureFlagsLoading
    /\ ~guard.res.hasAccess
    /\ IsSet(guard.props.loading)
    /\ guard.out = "fallback"

----------------------------------------------------------------------------
(* Properties of AccessControlProvider (checked under SpecProvider) *)

ProvLive(key) ==
    /\ key \in DOMAIN providerCache
    /\ now < providerCache[key].expiresAt

\* a load of one source: served from the live entry without a fetch, or
\* exactly one fetch started
ReadThrough(key, pendingBefore, pendingAfter, dataAfter) ==
    IF enableCache(pcfg) /\ ProvLive(key)
    THEN pendingAfter = pendingBefore
         /\ dataAfter = providerCache[key].data
    ELSE pendingAfter = pendingBefore + 1

StoredWithTimeout(key, data) ==
    enableCache(pcfg) =>
        /\ key \in DOMAIN providerCache'
        /\ providerCache'[key] =
              [data |-> data, timestamp |-> now,
               expiresAt |-> now + (IF IsSet(pcfg.cacheTimeout)
                                    THEN Val(pcfg.cacheTimeout) ELSE 300000)]

\* what one step of the provider does to fetches, state and providerCache
C20_ReadThroughStep ==
    /\ ProviderEffect =>
          /\ ReadThrough("user-permissions", pending.user, pending'.user,
                         Val(prov'.user))
          /\ pcfg.fetchFeatureFlags =>
                ReadThrough("feature-flags", pending.flags, pending'.flags,
                            prov'.featureFlags)
    /\ (\E permissions \in ProvUsers : UserFetchResolves(permissions)) =>
          StoredWithTimeout("user-permissions", Val(prov'.user))
    /\ (\E flags \in ProvFlagLists : FlagsFetchResolves(flags)) =>
          StoredWithTimeout("feature-flags", prov'.featureFlags)
    /\ ~enableCache(pcfg) => providerCache' = providerCache

\* C20: with enableCache true a load whose fixed key ('user-permissions',
\* 'feature-flags') has an unexpired entry calls no fetch and sets the state
\* to the cached value; otherwise it calls the fetch once, and a successful
\* fetch is stored under that key with ttl = cacheTimeout (default 300000);
\* with enableCache false the provider leaves the cache as it is.
C20_ReadThrough == [][C20_ReadThroughStep]_vars

\* the user was served from an entry this provider cannot have written
C20_Witness ==
    /\ enableCache(pcfg)
    /\ ProvLive("user-permissions")
    /\ providerCache["user-permissions"].expiresAt #
           providerCache["user-permissions"].timestamp + cacheTimeout(pcfg)
    /\ prov.user = Some(providerCache["user-permissions"].data)
    /\ ~prov.isLoading
    /\ pending.user = 0

\* C21: a refresh is never served from the cache: refreshPermissions and
\* refreshFeatureFlags (when fetchFeatureFlags is given) remove the key of
\* their source before the load reads the cache, so each refresh calls the
\* fetch function once, whatever the cache held and whatever is in flight,
\* and leaves the state as it is until the fetch settles; a fetch that
\* resolves replaces the state by exactly the fetched value.
C21_RefreshFetches ==
    [][/\ RefreshPermissions =>
             /\ pending'.user = pending.user + 1
             /\ prov'.user = prov.user
             /\ enableCache(pcfg) =>
                   "user-permissions" \notin DOMAIN providerCache'
       /\ (RefreshFeatureFlags /\ pcfg.fetchFeatureFlags) =>
             /\ pending'.flags = pending.flags + 1
             /\ prov'.featureFlags = prov.featureFlags
             /\ enableCache(pcfg) =>
                   "feature-flags" \notin DOMAIN providerCache'
       /\ \A permissions \in ProvUsers :
             UserFetchResolves(permissions) =>
                 prov'.user = Some(permissions)
       /\ \A flags \in ProvFlagLists :
             FlagsFetchResolves(flags) => prov'.featureFlags = flags
      ]_vars

\* at time 0 nothing has expired: the user was loaded, so the cache held a
\* live entry, a refresh removed it and its fetch is in flight
C21_Witness ==
    /\ enableCache(pcfg)
    /\ now = 0
    /\ IsSet(prov.user)
    /\ "user-permissions" \notin DOMAIN providerCache
    /\ pending.user > 0
    /\ prov.isLoading

\* no permission of the provider's helpers is granted
NoAccess(p) ==
    /\ \A permission \in PermIds : ~checkPermission(p, permission)
    /\ \A permissions \in SeqsUpTo(PermIds, MaxLen) :
          /\ ~checkAnyPermission(p, permissions)
          /\ permissions # <<>> => ~checkAllPermissions(p, permissions)
    /\ \A role \in RoleIds : ~checkRole(p, role)

\* C22: whenever a fetch of the user permissions fails, on mount or on a
\* refresh after an earlier successful load, the provider exposes a
\* non-null error, calls onError (when given) exactly once, ends with
\* isLoading false and writes nothing to the cache; and as long as the load
\* that completed last is a failed one, hasPermission, hasAnyPermission,
\* hasAllPermissions and hasRole of the provider answer false.
C22_FailsClosed ==
    [][/\ UserFetchRejects =>
             /\ IsSet(prov'.error)
             /\ pcfg.onError => hist'.onError = 1
             /\ ~prov'.isLoading
             /\ providerCache' = providerCache
       /\ hist'.last = "failed" => NoAccess(prov')
      ]_vars

\* C25: when two fetches of the user permissions were in flight at once and
\* both resolve, then once the second has resolved the provider state and,
\* with enableCache, the cache entry hold exactly the value of the one that
\* resolved last.
C25_LastCompletedWins ==
    [][\A permissions \in ProvUsers :
          (UserFetchResolves(permissions) /\ IsSet(hist'.raced)) =>
              /\ prov'.user = Some(permissions)
              /\ enableCache(pcfg) =>
                    /\ "user-permissions" \in DOMAIN providerCache'
                    /\ providerCache'["user-permissions"].data = permissions
      ]_vars

\* two overlapping fetches resolved with different values; state and cache
\* hold the later one
C25_Witness ==
    /\ enableCache(pcfg)
    /\ pending.user = 0
    /\ hist.last = "ok"
    /\ IsSet(hist.raced)
    /\ hist.raced # prov.user
    /\ "user-permissions" \in DOMAIN providerCache
    /\ providerCache["user-permissions"].data = Val(prov.user)

\* C26: isLoading is true whenever a fetchUserPermissions call of the
\* provider has not settled yet, and isFeatureFlagsLoading whenever a
\* fetchFeatureFlags call has not.
C26_LoadingCoversPending ==
    /\ pending.user > 0 => prov.isLoading
    /\ pending.flags > 0 => prov.isFeatureFlagsLoading

\* C27: whenever no permission fetch is in flight, error is non-null exactly
\* if the permission load that completed last failed.
C27_ErrorTracksLastLoad ==
    pending.user = 0 => (IsSet(prov.error) <=> hist.last = "failed")

\* C28: a provider with enableCache true only exposes user permissions and
\* feature flags that its own fetch functions returned, never what another
\* provider stored in providerCache.
C28_OwnDataOnly ==
    enableCache(pcfg) =>
        /\ IsSet(prov.user) => Val(prov.user) \in ProvUsers
        /\ prov.featureFlags \in ProvFlagLists \cup {<<>>}

----------------------------------------------------------------------------
(* Read after write through the multi-tier adapter (SpecMultiTier) *)

\* C29: after a setItem(k, v) has completed in which at least one adapter
\* accepted the write, a getItem(k) that follows with no write in between,
\* and in which no adapter throws, returns v.
C29_ReadYourWrites ==
    (/\ tiers.op = "getItem" /\ tiers.pc = "done"
     /\ \A n \in 1..Len(tiers.seen) : ~tiers.seen[n].threw
     /\ IsSet(hist)
     /\ Val(hist).op = "setItem"
     /\ Val(hist).key = tiers.key
     /\ \E j \in DOMAIN Val(hist).status : Val(hist).status[j] = "ok")
        => tiers.ret = Some(Val(hist).value)

----------------------------------------------------------------------------
(* generateCacheKey as a function of the config object and the user id *)

MaxFields == 2   \* properties of one config object

\* property values a caller may write, and the objects made of them: each
\* property at most once, in any order
KeyEntries ==
    {<<"feature", Some(f)>> : f \in FeatureIds}
        \cup {<<"permission", Some("p1")>>, <<"requireBoth", Some(TRUE)>>}
KeyObjects ==
    {obj \in SeqsUpTo(KeyEntries, MaxFields) :
        \A i, j \in 1..Len(obj) : obj[i][1] = obj[j][1] => i = j}
KeyUserIds == Opt({"u1", "anonymous", ""})

\* one call generateCacheKey(config, userId); key: None until it returned
KeyCall(obj, userId, key) == [config |-> obj, userId |-> userId, key |-> key]

InitKey ==
    /\ keyed \in {<<KeyCall(a, ua, None), KeyCall(b, ub, None)>> :
                     a \in KeyObjects, ua \in KeyUserIds,
                     b \in KeyObjects, ub \in KeyUserIds}
    /\ IdleEval /\ IdleUtil /\ cache = EmptyMap /\ now = 0
    /\ lastCall = NoCall
    /\ IdleEnc /\ IdleIdb /\ IdleTiers /\ IdleProv /\ IdleGuard /\ IdleHist

CallGenerateCacheKey(n) ==
    /\ keyed[n].key = None
    /\ keyed' = [keyed EXCEPT
                   ![n].key = Some(generateCacheKey(keyed[n].config,
                                                    keyed[n].userId))]
    /\ UNCHANGED <<evalVars, utilVars, cacheVars, extVars>>

NextKey == \E n \in 1..2 : CallGenerateCacheKey(n)

SpecKey == InitKey /\ [][NextKey]_vars

\* both calls have returned
BothKeyed == IsSet(keyed[1].key) /\ IsSet(keyed[2].key)

\* the same properties with the same values, whatever their order
SameFields(a, b) ==
    /\ Len(a) = Len(b)
    /\ \A i \in 1..Len(a) : \E j \in 1..Len(b) :
          a[i][1] = b[j][1] /\ a[i][2] = b[j][2]

\* who the key is for: a missing or empty user id is no identity
Identity(userId) == IF TruthyStr(userId) THEN userId ELSE None

\* C23: generateCacheKey returns the same key for two configs with the same
\* fields and values and the same user id, whatever the order in which the
\* fields of each config were written.
C23_OrderIndependent ==
    (/\ BothKeyed
     /\ SameFields(keyed[1].config, keyed[2].config)
     /\ keyed[1].userId = keyed[2].userId)
        => keyed[1].key = keyed[2].key

\* C24: generateCacheKey returns equal keys only for the same user identity
\* and structurally equal configs: different user ids, a user id and no
\* user id, or different configs never get the same key.
C24_KeySeparates ==
    (BothKeyed /\ keyed[1].key = keyed[2].key) =>
        /\ Identity(keyed[1].userId) = Identity(keyed[2].userId)
        /\ SameFields(keyed[1].config, keyed[2].config)

----------------------------------------------------------------------------
(* Monotonicity of the evaluator (SpecEval) *)

\* xs with x inserted after its first k elements
InsertAt(xs, k, x) == SubSeq(xs, 1, k) \o <<x>> \o SubSeq(xs, k + 1, Len(xs))

\* the direct call granted access
Granted ==
    called = "evaluateAccessControl" /\ Val(result).hasAccess

\* C30: if evaluateAccessControl grants access for a permission list and a
\* flag list, it still grants access for the same config after any
\* permission is added to the permission list, and after any flag of the
\* list that is disabled is switched to enabled.
C30_Monotone ==
    Granted =>
        /\ \A p \in PermIds :
           \A k \in 0..Len(Val(userPermissions).permissions) :
               evaluateAccessControl(
                   config,
                   [Val(userPermissions) EXCEPT
                       !.permissions = InsertAt(@, k, p)],
                   featureFlags).hasAccess
        /\ \A i \in 1..Len(featureFlags) :
               ~featureFlags[i].enabled =>
                   evaluateAccessControl(
                       config, Val(userPermissions),
                       [featureFlags EXCEPT ![i].enabled = TRUE]).hasAccess

\* access was granted on both a feature and a permission check, the user
\* holds one permission and one flag of the list is disabled
C30_Witness ==
    /\ Granted
    /\ hasFeatureCheck(config) /\ hasPermissionCheck(config)
    /\ Len(Val(userPermissions).permissions) = 1
    /\ \E i \in 1..Len(featureFlags) : ~featureFlags[i].enabled

====
